---------------------------- MODULE Spec2Model ----------------------------
(***************************************************************************)
(* Streaming tool-call reassembly of go-anyllm.                            *)
(*                                                                         *)
(* The module models the StreamingToolCallAccumulator of package tools     *)
(* (ProcessDelta, GetCompletedToolCalls, ClearCompleted, FinalizeStream,   *)
(* ForceCompleteToolCall and the counting queries), its sync.RWMutex, the  *)
(* streamReader of package response (process, Next, Current, Error, Read,  *)
(* processResponse, trimDataPrefix), the consumer loops of                 *)
(* docs/防止过早退出示例.md, ParseToolCallArgumentsSafe and the            *)
(* FunctionRegistry.                                                       *)
(*                                                                         *)
(* Strings are sequences of one-character strings.  Argument text is       *)
(* drawn from the alphabet Chars, on which IsValidJSON is the JSON grammar *)
(* (numbers made of the digit 1, and arrays).  StreamingToolCall's         *)
(* LastUpdateTime is a wall-clock stamp read only by the debug dump; it is *)
(* not part of the state.                                                  *)
(***************************************************************************)
EXTENDS Integers, Sequences, FiniteSets, TLC

VARIABLES
    toolCalls,        \* acc.toolCalls: call id -> StreamingToolCall
    lastToolCallID,   \* acc.lastToolCallID ("" = none seen)
    ret,              \* the last mutating operation and the calls it returned
    seenID,           \* history: the last non-empty id any fragment carried
    pc,               \* thread -> where it is in its accumulator operation
    todo,             \* thread -> the fragments its ProcessDelta has yet to apply
    snap,             \* thread -> the accumulator fields its loop iteration has read
    sent,             \* writer -> how many of its fragments it has handed over
    wlock,            \* acc.mutex: the threads holding it for writing
    rlock,            \* acc.mutex: the threads holding it for reading
    committed,        \* history: toolCalls when the last write lock was released
    tornRead,         \* history: a query read toolCalls inside another's write
    overlapSeen,      \* history: two queries held the read lock together
    lineNo,           \* lines process has read from the transport
    procPc,           \* where the process goroutine is
    item,             \* the streamResponse process is sending on respCh
    chClosed,         \* respCh is closed
    streamClosed,     \* how many times stream.Close() has run
    current,          \* streamReader.current
    err,              \* streamReader.err
    hasNext,          \* streamReader.hasNext
    finished,         \* streamReader.finished
    consumer,         \* which loop of the guide the caller runs
    cpc,              \* where the caller's loop is
    stop,             \* why the caller's loop ended
    returned,         \* the error the caller's loop returned
    dispatched,       \* call id -> how many times it was handed to Handle
    truth,            \* history: per id, the argument text the transport delivered
    begun,            \* history: the ids whose fragments the caller has processed
    waitedFor,        \* history: the ids pending at a finish signal the loop outlasted
    longNo,           \* history: lines longer than one byte process has read
    lastLine,         \* history: the last line process handed to processResponse
    endedBy,          \* history: what made process stop reading
    taken,            \* history: items received from respCh, by Next or by Read
    nTrue,            \* history: calls of Next that returned true
    lastNext,         \* history: what the last call of Next returned
    againAfterFalse,  \* history: Next was called after it had returned false
    usedRead,         \* history: Read was called on this reader
    parseIn,          \* the tool call and target type ParseToolCallArgumentsSafe is given
    parseOut,         \* what ParseToolCallArgumentsSafe returned
    handlers,         \* FunctionRegistry.handlers: function name -> handler
    handled,          \* the registry's last operation, with what Handle returned
    trimIn,           \* the line processResponse is given, byte by byte
    trimOut           \* the bytes processResponse goes on to interpret

accVars == <<toolCalls, lastToolCallID>>

seqVars == <<ret, seenID>>

concVars == <<pc, todo, snap, sent, wlock, rlock, committed, tornRead, overlapSeen>>

readerVars == <<lineNo, procPc, item, chClosed, streamClosed, current, err, hasNext,
                finished>>

callerVars == <<consumer, cpc, stop, returned, dispatched, truth, begun, waitedFor>>

histVars == <<longNo, lastLine, endedBy, taken, nTrue, lastNext, againAfterFalse, usedRead>>

streamVars == <<readerVars, callerVars, histVars>>

libVars == <<parseIn, parseOut, handlers, handled, trimIn, trimOut>>

vars == <<accVars, seqVars, concVars, streamVars, libVars>>

----------------------------------------------------------------------------
(* Bounds and input sets *)

\* Most argument characters the accumulator buffers at a time, over all calls.
MaxArgsLen == 2

\* Call ids of the fragments; the empty string is the omitted id.
IDs == {"a", "b"}

NoID == ""

\* The characters of argument text.
Chars == {"[", "]", "1"}

\* Argument text of one fragment: empty, or one character.
ArgTexts == {<<>>} \cup {<<c>> : c \in Chars}

\* A fragment either carries type and function name or omits both.
MetaKinds == {[Type |-> "", Name |-> ""],
              [Type |-> "function", Name |-> "get_weather"]}

\* response.ToolCall as ProcessDelta reads it: Id, Type, Function.Name,
\* Function.Arguments.
Fragments ==
    {[Id |-> i, Type |-> m.Type, Name |-> m.Name, Arguments |-> a] :
        i \in IDs \cup {NoID}, m \in MetaKinds, a \in ArgTexts}

\* The batches handed to one ProcessDelta call: one fragment, or two.
Batches == {<<f>> : f \in Fragments} \cup {<<f, g>> : f \in Fragments, g \in Fragments}

RECURSIVE ArgsLen(_)
\* The characters of argument text a batch carries.
ArgsLen(batch) ==
    IF batch = <<>> THEN 0 ELSE Len(Head(batch).Arguments) + ArgsLen(Tail(batch))

\* The batches that carry at most n characters of argument text.
BatchesWithin == [n \in 0..MaxArgsLen |-> {b \in Batches : ArgsLen(b) <= n}]

----------------------------------------------------------------------------
(* IsValidJSON: json.Unmarshal into interface{} succeeds.  On Chars the    *)
(* JSON values are the numbers 1, 11, ... and the arrays [], [v].          *)

RECURSIVE SkipDigits(_, _)
\* The first index at or after i that holds no digit.
SkipDigits(s, i) ==
    IF i <= Len(s) /\ s[i] = "1" THEN SkipDigits(s, i + 1) ELSE i

RECURSIVE ParseValue(_, _)
\* The index after the JSON value that starts at s[i], or 0 when none does.
ParseValue(s, i) ==
    IF i > Len(s) THEN 0
    ELSE IF s[i] = "1" THEN SkipDigits(s, i)
    ELSE IF s[i] = "[" THEN
        IF i + 1 <= Len(s) /\ s[i + 1] = "]" THEN i + 2
        ELSE LET j == ParseValue(s, i + 1)
             IN  IF j # 0 /\ j <= Len(s) /\ s[j] = "]" THEN j + 1 ELSE 0
    ELSE 0

IsValidJSON(s) ==
    IF s = <<>> THEN FALSE ELSE ParseValue(s, 1) = Len(s) + 1

----------------------------------------------------------------------------
(* The accumulator: [toolCalls, lastToolCallID] *)

\* NewStreamingToolCallAccumulator: an empty map, no id seen.
NewStreamingToolCallAccumulator ==
    [toolCalls |-> [i \in {} |-> 0], lastToolCallID |-> NoID]

\* A variant that applies a fragment without an id to the remembered id even
\* when none is remembered.
ResolveTarget_NoSkip(last, delta) ==
    IF delta.Id = NoID THEN (IF last = NoID THEN "a" ELSE last) ELSE delta.Id

\* The id a fragment is applied to; NoID when the fragment is skipped.
ResolveTarget(last, delta) ==
    IF delta.Id = NoID THEN last ELSE delta.Id

\* acc.lastToolCallID after a fragment.
RememberID(last, delta) ==
    IF delta.Id = NoID THEN last ELSE delta.Id

\* The record a fragment finds, created when the map has none for the id.
GetOrCreate(tc, targetID, delta) ==
    IF targetID \in DOMAIN tc THEN tc[targetID]
    ELSE [ID |-> targetID, Type |-> delta.Type, FunctionName |-> delta.Name,
          ArgumentsBuffer |-> <<>>, IsComplete |-> FALSE]

\* A variant that puts a fragment's text in front of the buffer.
UpdateCall_Prepend(call, delta) ==
    [call EXCEPT
        !.Type = IF delta.Type # "" THEN delta.Type ELSE @,
        !.FunctionName = IF delta.Name # "" THEN delta.Name ELSE @,
        !.ArgumentsBuffer = IF delta.Arguments # <<>> THEN delta.Arguments \o @ ELSE @]

\* Update-if-present of type and name, append of the argument text.
UpdateCall(call, delta) ==
    [call EXCEPT
        !.Type = IF delta.Type # "" THEN delta.Type ELSE @,
        !.FunctionName = IF delta.Name # "" THEN delta.Name ELSE @,
        !.ArgumentsBuffer = IF delta.Arguments # <<>> THEN @ \o delta.Arguments ELSE @]

\* A variant that re-evaluates IsComplete from the buffer every time.
MarkIfValid_Reevaluates(call) ==
    [call EXCEPT !.IsComplete = IsValidJSON(call.ArgumentsBuffer)]

\* The validity check after the append: sets IsComplete, never clears it.
MarkIfValid(call) ==
    IF IsValidJSON(call.ArgumentsBuffer) THEN [call EXCEPT !.IsComplete = TRUE] ELSE call

\* tc with key id set to call.
MapPut(tc, id, call) ==
    [k \in DOMAIN tc \cup {id} |-> IF k = id THEN call ELSE tc[k]]

\* A variant of the loop body that checks the buffer before the append.
ApplyDelta_ChecksBeforeAppend(acc, delta) ==
    LET targetID == ResolveTarget(acc.lastToolCallID, delta)
    IN  IF targetID = NoID THEN acc
        ELSE [toolCalls |->
                 MapPut(acc.toolCalls, targetID,
                        UpdateCall(MarkIfValid(GetOrCreate(acc.toolCalls, targetID, delta)),
                                   delta)),
              lastToolCallID |-> RememberID(acc.lastToolCallID, delta)]

\* A variant of the loop body without the validity check.
ApplyDelta_NoValidityCheck(acc, delta) ==
    LET targetID == ResolveTarget(acc.lastToolCallID, delta)
    IN  IF targetID = NoID THEN acc
        ELSE [toolCalls |->
                 MapPut(acc.toolCalls, targetID,
                        UpdateCall(GetOrCreate(acc.toolCalls, targetID, delta), delta)),
              lastToolCallID |-> RememberID(acc.lastToolCallID, delta)]

\* One iteration of ProcessDelta's loop.
ApplyDelta(acc, delta) ==
    LET targetID == ResolveTarget(acc.lastToolCallID, delta)
    IN  IF targetID = NoID THEN acc
        ELSE [toolCalls |->
                 MapPut(acc.toolCalls, targetID,
                        MarkIfValid(UpdateCall(GetOrCreate(acc.toolCalls, targetID, delta),
                                               delta))),
              lastToolCallID |-> RememberID(acc.lastToolCallID, delta)]

RECURSIVE ProcessDeltaLoop(_, _)
\* ProcessDelta's loop over the batch, in order.
ProcessDeltaLoop(acc, batch) ==
    IF batch = <<>> THEN acc
    ELSE ProcessDeltaLoop(ApplyDelta(acc, Head(batch)), Tail(batch))

\* types.ToolCall as the accumulator hands it out.
ToToolCall(call) ==
    [ID |-> call.ID, Type |-> call.Type, Name |-> call.FunctionName,
     Parameters |-> call.ArgumentsBuffer]

GetCompletedToolCalls(tc) ==
    {ToToolCall(tc[id]) : id \in {k \in DOMAIN tc : tc[k].IsComplete}}

GetPendingToolCalls(tc) ==
    [id \in {k \in DOMAIN tc : ~tc[k].IsComplete} |-> tc[id].ArgumentsBuffer]

\* A variant that never reports a pending call.
HasPendingToolCalls_Never(tc) == FALSE

HasPendingToolCalls(tc) == \E id \in DOMAIN tc : ~tc[id].IsComplete

GetPendingCount(tc) == Cardinality({id \in DOMAIN tc : ~tc[id].IsComplete})

\* A variant that counts every entry.
GetCompletedCount_CountsAll(tc) == Cardinality(DOMAIN tc)

GetCompletedCount(tc) == Cardinality({id \in DOMAIN tc : tc[id].IsComplete})

GetTotalCount(tc) == Cardinality(DOMAIN tc)

\* A variant that deletes nothing.
ClearCompletedMap_KeepsAll(tc) == tc

\* A variant that deletes the pending entries with the complete ones.
ClearCompletedMap_DropsAll(tc) == [id \in {} |-> tc[id]]

\* ClearCompleted: delete every entry that is complete.
ClearCompletedMap(tc) ==
    [id \in {k \in DOMAIN tc : ~tc[k].IsComplete} |-> tc[id]]

\* A variant that declares every call complete.
FinalizeMark_All(tc) == [id \in DOMAIN tc |-> [tc[id] EXCEPT !.IsComplete = TRUE]]

\* FinalizeStream's first loop: promote the pending calls whose buffer is valid.
FinalizeMark(tc) ==
    [id \in DOMAIN tc |-> IF ~tc[id].IsComplete THEN MarkIfValid(tc[id]) ELSE tc[id]]

\* A variant that marks the entry only when its buffer is valid JSON.
ForceMark_IfValid(tc, id) ==
    IF id \in DOMAIN tc THEN [tc EXCEPT ![id] = MarkIfValid(@)] ELSE tc

\* ForceCompleteToolCall's marking of one entry.
ForceMark(tc, id) ==
    IF id \in DOMAIN tc THEN [tc EXCEPT ![id].IsComplete = TRUE] ELSE tc

\* Characters buffered over all calls.
RECURSIVE SumLen(_, _)
SumLen(tc, ids) ==
    IF ids = {} THEN 0
    ELSE LET id == CHOOSE k \in ids : TRUE
         IN  Len(tc[id].ArgumentsBuffer) + SumLen(tc, ids \ {id})

TotalArgsLen(tc) == SumLen(tc, DOMAIN tc)

----------------------------------------------------------------------------
(* The accumulator shared by threads: acc.mutex, a sync.RWMutex.  Every    *)
(* mutating operation runs between Lock and Unlock, every query between    *)
(* RLock and RUnlock.  One iteration of ProcessDelta's loop reads the      *)
(* accumulator's fields and then writes them; under the write lock no      *)
(* other thread runs in between.                                           *)

\* Threads that feed fragments of their own call, as the stress test's goroutines.
NWriters == 2

\* Fragments of each writer's call.
MFrags == 2

\* Threads that run queries.
NReaders == 2

Writers == 1..NWriters

Readers == (NWriters + 1)..(NWriters + NReaders)

\* The thread that runs ClearCompleted, FinalizeStream and ForceCompleteToolCall.
Maintainer == NWriters + NReaders + 1

Threads == Writers \cup Readers \cup {Maintainer}

IDNames == <<"a", "b", "c", "d", "e", "f">>

\* Writer t's call id.
CallID(t) == IDNames[t]

\* The j-th piece of a call's argument text: "[", then digits, then "]".
ChunkText(j) == IF j = 1 THEN "[" ELSE IF j = MFrags THEN "]" ELSE "1"

\* Writer t's j-th fragment: the id on each, type and name on the first only.
Chunk(t, j) ==
    [Id |-> CallID(t),
     Type |-> IF j = 1 THEN "function" ELSE "",
     Name |-> IF j = 1 THEN "get_weather" ELSE "",
     Arguments |-> <<ChunkText(j)>>]

\* The first n pieces of a call's argument text.
TextUpTo(n) == [j \in 1..n |-> ChunkText(j)]

MaintenanceOps == {"ClearCompleted", "FinalizeStream"} \cup {CallID(t) : t \in Writers}

\* Variants of the lock that let every thread in.
CanLock_Always == TRUE

CanRLock_Always == TRUE

\* sync.RWMutex.Lock returns only while no thread holds the mutex.
CanLock == wlock = {} /\ rlock = {}

\* sync.RWMutex.RLock returns only while no thread holds the mutex for writing.
CanRLock == wlock = {}

InitThreads ==
    /\ pc = [t \in Threads |-> "idle"]
    /\ todo = [t \in Threads |-> <<>>]
    /\ snap = [t \in Threads |-> NewStreamingToolCallAccumulator]
    /\ sent = [t \in Writers |-> 0]
    /\ wlock = {}
    /\ rlock = {}
    /\ committed = NewStreamingToolCallAccumulator.toolCalls
    /\ tornRead = FALSE
    /\ overlapSeen = FALSE

----------------------------------------------------------------------------
(* The stream reader of package response and the caller's loop.  The       *)
(* transport hands process one line per ReadLine; a line is a data line    *)
(* that decodes to a chunk, a line of at most one byte, the [DONE] line,   *)
(* the keep-alive line or a line that does not decode.                     *)

\* Most lines the transport carries before ReadLine fails.
MaxLines == 3

NoError == "nil"

\* io.EOF, the keep-alive error, a json.Unmarshal error, a transport read error.
Errors == {"EOF", "unavailable", "decode", "read"}

\* A nil *ChatCompletionsResponse.
NilResp == [isNil |-> TRUE, ToolCalls |-> <<>>, FinishReason |-> ""]

\* The record json.Unmarshal leaves behind when a line does not decode.
PartialResp == [isNil |-> FALSE, ToolCalls |-> <<>>, FinishReason |-> ""]

\* The tool-call fragments the chunks of a stream carry.
StreamFragments ==
    {[Id |-> i, Type |-> IF i = NoID THEN "" ELSE "function",
      Name |-> IF i = NoID THEN "" ELSE "get_weather", Arguments |-> <<c>>] :
        i \in IDs \cup {NoID}, c \in Chars}

\* A decoded chunk: Choices[0].Delta.ToolCalls and Choices[0].FinishReason.
Chunks ==
    {[isNil |-> FALSE, ToolCalls |-> tc, FinishReason |-> fr] :
        tc \in {<<>>} \cup {<<f>> : f \in StreamFragments}, fr \in {"", "tool_calls"}}

\* The lines longer than one byte, as ReadLine hands them over.  A line that
\* does not decode ("bad") is also what ReadLine makes of a data line longer
\* than bufio's buffer, which it returns in pieces.
Lines ==
    {[kind |-> "data", chunk |-> c] : c \in Chunks}
        \cup {[kind |-> k, chunk |-> NilResp] : k \in {"done", "keepalive", "bad"}}

\* A variant without the keep-alive check: the line goes to json.Unmarshal.
processResponse_NoKeepAlive(line) ==
    CASE line.kind = "keepalive" -> [chatResp |-> PartialResp, error |-> "decode"]
      [] line.kind = "done" -> [chatResp |-> NilResp, error |-> "EOF"]
      [] line.kind = "bad" -> [chatResp |-> PartialResp, error |-> "decode"]
      [] OTHER -> [chatResp |-> line.chunk, error |-> NoError]

\* processResponse: the chunk and the error a line decodes to.
processResponse(line) ==
    CASE line.kind = "keepalive" -> [chatResp |-> NilResp, error |-> "unavailable"]
      [] line.kind = "done" -> [chatResp |-> NilResp, error |-> "EOF"]
      [] line.kind = "bad" -> [chatResp |-> PartialResp, error |-> "decode"]
      [] OTHER -> [chatResp |-> line.chunk, error |-> NoError]

\* History: the transport's own account of which call a fragment belongs to,
\* an omitted id meaning the call of the last id it sent.
RECURSIVE Deliver(_, _)
Deliver(t, batch) ==
    IF batch = <<>> THEN t
    ELSE LET f == Head(batch)
             id == IF f.Id = NoID THEN t.last ELSE f.Id
         IN  Deliver(IF id = NoID THEN t
                     ELSE [args |-> [t.args EXCEPT ![id] = @ \o f.Arguments],
                           last |-> id],
                     Tail(batch))

RECURSIVE Targets(_, _)
\* History: the ids the fragments of a batch go to, after last.
Targets(last, batch) ==
    IF batch = <<>> THEN {}
    ELSE LET f == Head(batch)
             id == IF f.Id = NoID THEN last ELSE f.Id
         IN  (IF id = NoID THEN {} ELSE {id}) \cup Targets(id, Tail(batch))

\* NewStreamReader: an open channel, nothing read, process started.
InitReader ==
    /\ lineNo = 0
    /\ procPc = "read"
    /\ item = [chatResp |-> NilResp, error |-> NoError]
    /\ chClosed = FALSE
    /\ streamClosed = 0
    /\ current = NilResp
    /\ err = NoError
    /\ hasNext = FALSE
    /\ finished = FALSE

\* No line handed to processResponse yet.
NoLine == [kind |-> "none", chunk |-> NilResp]

InitHist ==
    /\ longNo = 0
    /\ lastLine = NoLine
    /\ endedBy = ""
    /\ taken = 0
    /\ nTrue = 0
    /\ lastNext = "none"
    /\ againAfterFalse = FALSE
    /\ usedRead = FALSE

InitCaller(kind) ==
    /\ consumer = kind
    /\ cpc = "next"
    /\ stop = ""
    /\ returned = NoError
    /\ dispatched = [id \in IDs |-> 0]
    /\ truth = [args |-> [id \in IDs |-> <<>>], last |-> NoID]
    /\ begun = {}
    /\ waitedFor = {}

----------------------------------------------------------------------------
(* ParseToolCallArgumentsSafe and json.Unmarshal into a target type.  The  *)
(* target types are int and []int; the payload is a string, a byte slice   *)
(* or another Go value, which is first passed to json.Marshal.             *)

\* Most characters of a payload text.
MaxPayloadLen == 4

RECURSIVE TextsOfLen(_)
\* The texts of n characters.
TextsOfLen(n) ==
    IF n = 0 THEN {<<>>}
    ELSE {Append(t, c) : t \in TextsOfLen(n - 1), c \in Chars}

Texts == UNION {TextsOfLen(n) : n \in 0..MaxPayloadLen}

TargetTypes == {"int", "[]int"}

\* A value of type int.
IntValue(n) == [kind |-> "int", items |-> <<n>>]

\* A value of type []int that is not nil.
SliceValue(items) == [kind |-> "slice", items |-> items]

\* A nil slice, as distinct from the empty slice.
NilSlice == [kind |-> "nil slice", items |-> <<>>]

\* var result T.
ZeroValue(T) == IF T = "int" THEN IntValue(0) ELSE NilSlice

\* toolCall.Function.Parameters: a string, a []byte, a value json.Marshal
\* encodes as text, or a value json.Marshal rejects.
Payloads ==
    {[kind |-> k, text |-> t] : k \in {"string", "bytes"}, t \in Texts}
        \cup {[kind |-> "value", text |-> t] : t \in {x \in Texts : IsValidJSON(x)}}
        \cup {[kind |-> "unmarshalable", text |-> <<>>]}

RECURSIVE NumberOf(_)
\* The number a text of digits denotes.
NumberOf(s) == IF s = <<>> THEN 0 ELSE 10 * NumberOf(SubSeq(s, 1, Len(s) - 1)) + 1

\* The text between an array's brackets.
Inner(s) == SubSeq(s, 2, Len(s) - 1)

\* json.Unmarshal of valid JSON text s into a zero value of type T.  A value
\* of the wrong kind is skipped and the first such error is returned at the
\* end: an element of the wrong kind leaves a slice with a zero element.
Unmarshal(s, T) ==
    IF T = "int"
    THEN IF s[1] = "1" THEN [value |-> IntValue(NumberOf(s)), err |-> FALSE]
         ELSE [value |-> IntValue(0), err |-> TRUE]
    ELSE IF s[1] = "1" THEN [value |-> NilSlice, err |-> TRUE]
         ELSE IF Inner(s) = <<>> THEN [value |-> SliceValue(<<>>), err |-> FALSE]
         ELSE IF Inner(s)[1] = "1"
              THEN [value |-> SliceValue(<<NumberOf(Inner(s))>>), err |-> FALSE]
              ELSE [value |-> SliceValue(<<0>>), err |-> TRUE]

\* json.Marshal of a payload that is neither string nor []byte.
Marshal(params) ==
    IF params.kind = "unmarshalable" THEN [data |-> <<>>, err |-> TRUE]
    ELSE [data |-> params.text, err |-> FALSE]

\* One of the three branches after the payload's text is known.
ParseText(text, T) ==
    IF ~IsValidJSON(text)
    THEN [value |-> ZeroValue(T), complete |-> FALSE, error |-> ""]
    ELSE LET u == Unmarshal(text, T)
         IN  IF u.err
             THEN [value |-> u.value, complete |-> FALSE, error |-> "parse"]
             ELSE [value |-> u.value, complete |-> TRUE, error |-> ""]

\* A variant without the IsValidJSON gate, as ParseToolCallArguments.
ParseToolCallArgumentsSafe_NoGate(params, T) ==
    LET text == params.text
    IN  IF params.kind = "unmarshalable" \/ ~IsValidJSON(text)
        THEN [value |-> ZeroValue(T), complete |-> FALSE, error |-> "parse"]
        ELSE ParseText(text, T)

ParseToolCallArgumentsSafe(params, T) ==
    IF params.kind \in {"string", "bytes"} THEN ParseText(params.text, T)
    ELSE LET m == Marshal(params)
         IN  IF m.err
             THEN [value |-> ZeroValue(T), complete |-> FALSE, error |-> "marshal"]
             ELSE ParseText(m.data, T)

NotParsed ==
    [value |-> [kind |-> "none", items |-> <<>>], complete |-> FALSE, error |-> "not called"]

\* The call of ParseToolCallArgumentsSafe[T] on the payload given.
ParseCall ==
    /\ parseOut = NotParsed
    /\ parseOut' = ParseToolCallArgumentsSafe(parseIn.params, parseIn.T)
    /\ UNCHANGED <<accVars, seqVars, concVars, streamVars, parseIn, handlers, handled,
                   trimIn, trimOut>>

----------------------------------------------------------------------------
(* processResponse's handling of the line's bytes: trimDataPrefix.  A line *)
(* is the bytes "data: " or nothing, followed by a body over Chars.        *)

\* Most bytes of a line's body.
MaxBodyLen == 7

\* The vendor's SSE framing: the six bytes of "data: ".
DataPrefix == <<"d", "a", "t", "a", ":", " ">>

\* trimIndex := 6.
TrimIndex == Len(DataPrefix)

\* The lines handed to processResponse, with and without the prefix.
ByteLines ==
    {pre \o body : pre \in {<<>>, DataPrefix},
                   body \in UNION {TextsOfLen(n) : n \in 0..MaxBodyLen}}

trimDataPrefix(content) ==
    IF Len(content) > TrimIndex
    THEN SubSeq(content, TrimIndex + 1, Len(content))
    ELSE content

NotTrimmed == [called |-> FALSE, content |-> <<>>]

\* processResponse up to bytes = trimDataPrefix(bytes), for a line that is
\* not the keep-alive line.
TrimCall ==
    /\ ~trimOut.called
    /\ trimOut' = [called |-> TRUE, content |-> trimDataPrefix(trimIn)]
    /\ UNCHANGED <<accVars, seqVars, concVars, streamVars, parseIn, parseOut, handlers,
                   handled, trimIn>>

----------------------------------------------------------------------------
(* FunctionRegistry: Register and Handle.  A handler returns a content and *)
(* an error; what it returns depends on the handler and on the call.       *)

FunctionNames == {"get_weather", "get_time", "unknown_fn"}

\* Handlers: one that succeeds, one that fails, one that returns both a
\* content and an error.
HandlerKinds == {"ok", "fails", "both"}

\* types.ToolCall as Handle reads it: ID and Function.Name.
RegistryCalls == {[ID |-> i, Name |-> n] : i \in IDs, n \in FunctionNames}

\* handler.HandleToolCall(toolCall).
HandleToolCall(handler, toolCall) ==
    [content |-> IF handler = "fails" THEN <<>> ELSE <<handler, toolCall.ID>>,
     err |-> IF handler = "ok" THEN <<>> ELSE <<"failed", toolCall.ID>>]

\* A variant that drops the handler's error.
HandleResult_DropsError(hs, toolCall) ==
    IF toolCall.Name \notin DOMAIN hs
    THEN [ToolCallID |-> toolCall.ID, Content |-> <<>>,
          Error |-> <<"function", toolCall.Name, "not found">>]
    ELSE [ToolCallID |-> toolCall.ID,
          Content |-> HandleToolCall(hs[toolCall.Name], toolCall).content,
          Error |-> <<>>]

\* The *ToolCallResult Handle returns.
HandleResult(hs, toolCall) ==
    IF toolCall.Name \notin DOMAIN hs
    THEN [ToolCallID |-> toolCall.ID, Content |-> <<>>,
          Error |-> <<"function", toolCall.Name, "not found">>]
    ELSE LET r == HandleToolCall(hs[toolCall.Name], toolCall)
         IN  [ToolCallID |-> toolCall.ID, Content |-> r.content, Error |-> r.err]

NoCall == [ID |-> "", Name |-> ""]

NoResult == [ToolCallID |-> "", Content |-> <<>>, Error |-> <<>>]

\* NewFunctionRegistry, and no payload given to ParseToolCallArgumentsSafe.
InitLib ==
    /\ parseIn = [params |-> [kind |-> "string", text |-> <<>>], T |-> "int"]
    /\ parseOut = NotParsed
    /\ handlers = [n \in {} |-> "ok"]
    /\ handled = [op |-> "New", call |-> NoCall, invoked |-> "", result |-> NoResult]
    /\ trimIn = <<>>
    /\ trimOut = NotTrimmed

Register(functionName, handler) ==
    /\ handlers' = [n \in DOMAIN handlers \cup {functionName} |->
                      IF n = functionName THEN handler ELSE handlers[n]]
    /\ handled' = [op |-> "Register", call |-> NoCall, invoked |-> "", result |-> NoResult]
    /\ UNCHANGED <<accVars, seqVars, concVars, streamVars, parseIn, parseOut, trimIn, trimOut>>

Handle(toolCall) ==
    /\ handled' = [op |-> "Handle", call |-> toolCall,
                   invoked |-> IF toolCall.Name \in DOMAIN handlers
                               THEN toolCall.Name ELSE "",
                   result |-> HandleResult(handlers, toolCall)]
    /\ UNCHANGED <<accVars, seqVars, concVars, streamVars, parseIn, parseOut, handlers,
                   trimIn, trimOut>>

----------------------------------------------------------------------------
(* The accumulator driven by one thread: every operation is atomic. *)

NoCalls == {}

RECURSIVE LastIDCarried(_, _)
\* History: the last non-empty id among the batch's fragments, else the one before.
LastIDCarried(batch, before) ==
    IF batch = <<>> THEN before
    ELSE LET f == batch[Len(batch)]
         IN  IF f.Id # NoID THEN f.Id
             ELSE LastIDCarried(SubSeq(batch, 1, Len(batch) - 1), before)

InitAcc ==
    /\ toolCalls = NewStreamingToolCallAccumulator.toolCalls
    /\ lastToolCallID = NewStreamingToolCallAccumulator.lastToolCallID
    /\ ret = [op |-> "New", val |-> NoCalls]
    /\ seenID = NoID

Init == InitAcc /\ InitThreads /\ InitReader /\ InitHist /\ InitCaller("none") /\ InitLib

Acc == [toolCalls |-> toolCalls, lastToolCallID |-> lastToolCallID]

\* A ProcessDelta call is explored while its argument text fits the bound.
ProcessDelta(batch) ==
    LET after == ProcessDeltaLoop(Acc, batch)
    IN  /\ batch \in BatchesWithin[MaxArgsLen - TotalArgsLen(toolCalls)]
        /\ toolCalls' = after.toolCalls
        /\ lastToolCallID' = after.lastToolCallID
        /\ ret' = [op |-> "ProcessDelta", val |-> NoCalls]
        /\ seenID' = LastIDCarried(batch, seenID)
        /\ UNCHANGED <<concVars, streamVars, libVars>>

\* A variant that forgets the remembered id.
ClearCompleted_ForgetsID ==
    /\ toolCalls' = ClearCompletedMap(toolCalls)
    /\ lastToolCallID' = NoID
    /\ ret' = [op |-> "ClearCompleted", val |-> NoCalls]
    /\ UNCHANGED <<seenID, concVars, streamVars, libVars>>

ClearCompleted ==
    /\ toolCalls' = ClearCompletedMap(toolCalls)
    /\ ret' = [op |-> "ClearCompleted", val |-> NoCalls]
    /\ UNCHANGED <<lastToolCallID, seenID, concVars, streamVars, libVars>>

FinalizeStream ==
    /\ toolCalls' = FinalizeMark(toolCalls)
    /\ ret' = [op |-> "FinalizeStream", val |-> GetCompletedToolCalls(toolCalls')]
    /\ UNCHANGED <<lastToolCallID, seenID, concVars, streamVars, libVars>>

ForceCompleteToolCall(toolCallId) ==
    /\ toolCalls' = ForceMark(toolCalls, toolCallId)
    /\ ret' = [op |-> "ForceCompleteToolCall",
               val |-> IF toolCallId \in DOMAIN toolCalls
                       THEN {ToToolCall(toolCalls'[toolCallId])} ELSE NoCalls]
    /\ UNCHANGED <<lastToolCallID, seenID, concVars, streamVars, libVars>>

Next ==
    \/ \E batch \in BatchesWithin[MaxArgsLen - TotalArgsLen(toolCalls)] : ProcessDelta(batch)
    \/ ClearCompleted
    \/ FinalizeStream
    \/ \E id \in IDs : ForceCompleteToolCall(id)

Spec == Init /\ [][Next]_vars

\* The accumulator without ForceCompleteToolCall.
NextNoForce ==
    \/ \E batch \in BatchesWithin[MaxArgsLen - TotalArgsLen(toolCalls)] : ProcessDelta(batch)
    \/ ClearCompleted
    \/ FinalizeStream

SpecNoForce == Init /\ [][NextNoForce]_vars

\* ParseToolCallArgumentsSafe[T] called once on any payload and target type.
InitParse ==
    /\ InitAcc /\ InitThreads /\ InitReader /\ InitHist /\ InitCaller("none")
    /\ parseIn \in [params : Payloads, T : TargetTypes]
    /\ parseOut = NotParsed
    /\ handlers = [n \in {} |-> "ok"]
    /\ handled = [op |-> "New", call |-> NoCall, invoked |-> "", result |-> NoResult]
    /\ trimIn = <<>>
    /\ trimOut = NotTrimmed

NextParse == ParseCall

SpecParse == InitParse /\ [][NextParse]_vars

\* processResponse called once on any line.
InitTrim ==
    /\ InitAcc /\ InitThreads /\ InitReader /\ InitHist /\ InitCaller("none")
    /\ parseIn = [params |-> [kind |-> "string", text |-> <<>>], T |-> "int"]
    /\ parseOut = NotParsed
    /\ handlers = [n \in {} |-> "ok"]
    /\ handled = [op |-> "New", call |-> NoCall, invoked |-> "", result |-> NoResult]
    /\ trimIn \in ByteLines
    /\ trimOut = NotTrimmed

NextTrim == TrimCall

SpecTrim == InitTrim /\ [][NextTrim]_vars

\* A registry: handlers are registered and calls are handled in any order.
NextRegistry ==
    \/ \E n \in FunctionNames \ {"unknown_fn"} : \E h \in HandlerKinds : Register(n, h)
    \/ \E c \in RegistryCalls : Handle(c)

SpecRegistry == Init /\ [][NextRegistry]_vars

----------------------------------------------------------------------------
(* The threads' steps *)

\* Writer t calls ProcessDelta with its next k fragments and takes the lock.
PD_Lock(t, k) ==
    /\ pc[t] = "idle"
    /\ sent[t] + k <= MFrags
    /\ CanLock
    /\ wlock' = wlock \cup {t}
    /\ todo' = [todo EXCEPT ![t] = [j \in 1..k |-> Chunk(t, sent[t] + j)]]
    /\ sent' = [sent EXCEPT ![t] = @ + k]
    /\ pc' = [pc EXCEPT ![t] = "load"]
    /\ UNCHANGED <<accVars, seqVars, streamVars, libVars, snap, rlock, committed, tornRead, overlapSeen>>

\* The loop iteration reads the remembered id and the map.
PD_Load(t) ==
    /\ pc[t] = "load"
    /\ snap' = [snap EXCEPT ![t] = Acc]
    /\ pc' = [pc EXCEPT ![t] = "store"]
    /\ UNCHANGED <<accVars, seqVars, streamVars, libVars, todo, sent, wlock, rlock, committed, tornRead,
                   overlapSeen>>

\* The loop iteration writes the remembered id, the record and its flag.
PD_Store(t) ==
    LET after == ApplyDelta(snap[t], Head(todo[t]))
    IN  /\ pc[t] = "store"
        /\ toolCalls' = after.toolCalls
        /\ lastToolCallID' = after.lastToolCallID
        /\ todo' = [todo EXCEPT ![t] = Tail(@)]
        /\ pc' = [pc EXCEPT ![t] = IF Tail(todo[t]) = <<>> THEN "unlock" ELSE "load"]
        /\ snap' = [snap EXCEPT ![t] = NewStreamingToolCallAccumulator]
        /\ UNCHANGED <<seqVars, streamVars, libVars, sent, wlock, rlock, committed, tornRead, overlapSeen>>

\* The deferred Unlock of a mutating operation.
W_Unlock(t) ==
    /\ pc[t] = "unlock"
    /\ wlock' = wlock \ {t}
    /\ committed' = toolCalls
    /\ pc' = [pc EXCEPT ![t] = "idle"]
    /\ UNCHANGED <<accVars, seqVars, streamVars, libVars, todo, snap, sent, rlock, tornRead, overlapSeen>>

\* A reader calls a query and takes the read lock.
Q_RLock(t) ==
    /\ pc[t] = "idle"
    /\ CanRLock
    /\ rlock' = rlock \cup {t}
    /\ overlapSeen' = (overlapSeen \/ rlock # {})
    /\ pc' = [pc EXCEPT ![t] = "query"]
    /\ UNCHANGED <<accVars, seqVars, streamVars, libVars, todo, snap, sent, wlock, committed, tornRead>>

\* The query scans the map.
Q_Read(t) ==
    /\ pc[t] = "query"
    /\ tornRead' = (tornRead \/ toolCalls # committed)
    /\ pc' = [pc EXCEPT ![t] = "runlock"]
    /\ UNCHANGED <<accVars, seqVars, streamVars, libVars, todo, snap, sent, wlock, rlock, committed,
                   overlapSeen>>

\* The deferred RUnlock of a query.
Q_RUnlock(t) ==
    /\ pc[t] = "runlock"
    /\ rlock' = rlock \ {t}
    /\ pc' = [pc EXCEPT ![t] = "idle"]
    /\ UNCHANGED <<accVars, seqVars, streamVars, libVars, todo, snap, sent, wlock, committed, tornRead,
                   overlapSeen>>

\* The maintainer calls ClearCompleted, FinalizeStream or
\* ForceCompleteToolCall(op) and takes the lock.
M_Lock(op) ==
    /\ pc[Maintainer] = "idle"
    /\ CanLock
    /\ wlock' = wlock \cup {Maintainer}
    /\ pc' = [pc EXCEPT ![Maintainer] = op]
    /\ UNCHANGED <<accVars, seqVars, streamVars, libVars, todo, snap, sent, rlock, committed, tornRead,
                   overlapSeen>>

\* The body of the maintainer's operation.
M_Apply ==
    /\ pc[Maintainer] \in MaintenanceOps
    /\ toolCalls' = CASE pc[Maintainer] = "ClearCompleted" -> ClearCompletedMap(toolCalls)
                      [] pc[Maintainer] = "FinalizeStream" -> FinalizeMark(toolCalls)
                      [] OTHER -> ForceMark(toolCalls, pc[Maintainer])
    /\ pc' = [pc EXCEPT ![Maintainer] = "unlock"]
    /\ UNCHANGED <<lastToolCallID, seqVars, streamVars, libVars, todo, snap, sent, wlock, rlock, committed,
                   tornRead, overlapSeen>>

WriterStep(maxBatch) ==
    \E t \in Writers :
        \/ \E k \in 1..maxBatch : PD_Lock(t, k)
        \/ PD_Load(t)
        \/ PD_Store(t)
        \/ W_Unlock(t)

ReaderStep ==
    \E t \in Readers :
        \/ Q_RLock(t)
        \/ Q_Read(t)
        \/ Q_RUnlock(t)

MaintainerStep ==
    \/ \E op \in MaintenanceOps : M_Lock(op)
    \/ M_Apply
    \/ W_Unlock(Maintainer)

\* The stress test: every writer hands over one fragment per ProcessDelta call,
\* readers query meanwhile.
NextStress == WriterStep(1) \/ ReaderStep

SpecStress == Init /\ [][NextStress]_vars

\* Writers, readers and the maintainer, ProcessDelta batches of any size.
NextRace == WriterStep(MFrags) \/ ReaderStep \/ MaintainerStep

SpecRace == Init /\ [][NextRace]_vars

\* The maintainer as the draining thread: completed := GetCompletedToolCalls()
\* between RLock and RUnlock, then ClearCompleted() between Lock and Unlock.
\* What the query returned is kept in snap[Maintainer].toolCalls.
D_RLock ==
    /\ pc[Maintainer] = "idle"
    /\ CanRLock
    /\ rlock' = rlock \cup {Maintainer}
    /\ overlapSeen' = (overlapSeen \/ rlock # {})
    /\ pc' = [pc EXCEPT ![Maintainer] = "drain query"]
    /\ UNCHANGED <<accVars, seqVars, streamVars, libVars, todo, snap, sent, wlock, committed, tornRead>>

\* GetCompletedToolCalls scans the map and collects the complete entries.
D_Read ==
    /\ pc[Maintainer] = "drain query"
    /\ snap' = [snap EXCEPT ![Maintainer] =
                  [toolCalls |-> [id \in {k \in DOMAIN toolCalls : toolCalls[k].IsComplete}
                                    |-> toolCalls[id]],
                   lastToolCallID |-> NoID]]
    /\ tornRead' = (tornRead \/ toolCalls # committed)
    /\ pc' = [pc EXCEPT ![Maintainer] = "drain runlock"]
    /\ UNCHANGED <<accVars, seqVars, streamVars, libVars, todo, sent, wlock, rlock, committed,
                   overlapSeen>>

\* The deferred RUnlock of GetCompletedToolCalls.
D_RUnlock ==
    /\ pc[Maintainer] = "drain runlock"
    /\ rlock' = rlock \ {Maintainer}
    /\ pc' = [pc EXCEPT ![Maintainer] = "drained"]
    /\ UNCHANGED <<accVars, seqVars, streamVars, libVars, todo, snap, sent, wlock, committed, tornRead,
                   overlapSeen>>

\* The draining thread goes on to ClearCompleted and takes the lock.
D_Lock ==
    /\ pc[Maintainer] = "drained"
    /\ CanLock
    /\ wlock' = wlock \cup {Maintainer}
    /\ pc' = [pc EXCEPT ![Maintainer] = "ClearCompleted"]
    /\ UNCHANGED <<accVars, seqVars, streamVars, libVars, todo, snap, sent, rlock, committed, tornRead,
                   overlapSeen>>

DrainerStep ==
    \/ D_RLock
    \/ D_Read
    \/ D_RUnlock
    \/ D_Lock
    \/ M_Apply
    \/ W_Unlock(Maintainer)

\* Writers call ProcessDelta while one thread drains.
NextConcurrentDrain == WriterStep(MFrags) \/ DrainerStep

SpecConcurrentDrain == Init /\ [][NextConcurrentDrain]_vars

----------------------------------------------------------------------------
(* process, Next and the caller's loops *)

\* A variant that sends the record along with the error.
P_ReadLine_KeepsRecord(line) ==
    LET r == processResponse(line)
    IN  /\ procPc = "read"
        /\ lineNo < MaxLines
        /\ lineNo' = lineNo + 1
        /\ item' = r
        /\ procPc' = IF r.error # NoError THEN "sendlast" ELSE "send"
        /\ truth' = IF r.error = NoError THEN Deliver(truth, r.chatResp.ToolCalls)
                    ELSE truth
        /\ longNo' = longNo + 1
        /\ lastLine' = line
        /\ endedBy' = IF r.error # NoError THEN line.kind ELSE endedBy
        /\ UNCHANGED <<taken, nTrue, lastNext, againAfterFalse, usedRead>>
        /\ UNCHANGED <<accVars, seqVars, concVars, libVars, chClosed, streamClosed, current, err,
                       hasNext, finished, consumer, cpc, stop, returned, dispatched,
                       begun, waitedFor>>

\* A variant that does not wait for the caller: it reads the next line over
\* an item that was not taken.
P_ReadLine_NoWait(line) ==
    LET r == processResponse(line)
    IN  /\ procPc \in {"read", "send"}
        /\ lineNo < MaxLines
        /\ lineNo' = lineNo + 1
        /\ item' = IF r.error # NoError THEN [chatResp |-> NilResp, error |-> r.error]
                   ELSE r
        /\ procPc' = IF r.error # NoError THEN "sendlast" ELSE "send"
        /\ truth' = IF r.error = NoError THEN Deliver(truth, r.chatResp.ToolCalls)
                    ELSE truth
        /\ longNo' = longNo + 1
        /\ lastLine' = line
        /\ endedBy' = IF r.error # NoError THEN line.kind ELSE endedBy
        /\ UNCHANGED <<taken, nTrue, lastNext, againAfterFalse, usedRead>>
        /\ UNCHANGED <<accVars, seqVars, concVars, libVars, chClosed, streamClosed, current, err,
                       hasNext, finished, consumer, cpc, stop, returned, dispatched,
                       begun, waitedFor>>

\* process: ReadLine returned a line longer than one byte; processResponse
\* decoded it and the result is offered on respCh.
P_ReadLine(line) ==
    LET r == processResponse(line)
    IN  /\ procPc = "read"
        /\ lineNo < MaxLines
        /\ lineNo' = lineNo + 1
        /\ item' = IF r.error # NoError THEN [chatResp |-> NilResp, error |-> r.error]
                   ELSE r
        /\ procPc' = IF r.error # NoError THEN "sendlast" ELSE "send"
        /\ truth' = IF r.error = NoError THEN Deliver(truth, r.chatResp.ToolCalls)
                    ELSE truth
        /\ longNo' = longNo + 1
        /\ lastLine' = line
        /\ endedBy' = IF r.error # NoError THEN line.kind ELSE endedBy
        /\ UNCHANGED <<taken, nTrue, lastNext, againAfterFalse, usedRead>>
        /\ UNCHANGED <<accVars, seqVars, concVars, libVars, chClosed, streamClosed, current, err,
                       hasNext, finished, consumer, cpc, stop, returned, dispatched,
                       begun, waitedFor>>

\* process: ReadLine returned a line of at most one byte; the loop continues.
P_SkipLine ==
    /\ procPc = "read"
    /\ lineNo < MaxLines
    /\ lineNo' = lineNo + 1
    /\ UNCHANGED <<accVars, seqVars, concVars, libVars, procPc, item, chClosed, streamClosed,
                   current, err, hasNext, finished, callerVars, histVars>>

\* process: ReadLine failed, with io.EOF at the transport's end or another error.
P_ReadError(e) ==
    /\ procPc = "read"
    /\ item' = [chatResp |-> NilResp, error |-> e]
    /\ procPc' = "sendlast"
    /\ endedBy' = IF e = "EOF" THEN "eof" ELSE "read"
    /\ UNCHANGED <<longNo, lastLine, taken, nTrue, lastNext, againAfterFalse, usedRead>>
    /\ UNCHANGED <<accVars, seqVars, concVars, libVars, lineNo, chClosed, streamClosed, current,
                   err, hasNext, finished, callerVars>>

\* A variant that closes respCh and leaves the transport stream open.
P_Return_LeavesStreamOpen ==
    /\ procPc = "return"
    /\ chClosed' = TRUE
    /\ procPc' = "exited"
    /\ UNCHANGED <<accVars, seqVars, concVars, libVars, lineNo, item, streamClosed, current, err,
                   hasNext, finished, callerVars, histVars>>

\* process returns: the deferred close(m.respCh), then the deferred stream.Close().
P_Return ==
    /\ procPc = "return"
    /\ chClosed' = TRUE
    /\ streamClosed' = streamClosed + 1
    /\ procPc' = "exited"
    /\ UNCHANGED <<accVars, seqVars, concVars, libVars, lineNo, item, current, err, hasNext,
                   finished, callerVars, histVars>>

\* A variant that leaves io.EOF in err.
NextReceive_KeepsEOF(resp) ==
    [current |-> resp.chatResp,
     err |-> resp.error,
     finished |-> resp.error # NoError,
     hasNext |-> resp.error = NoError]

\* A variant that does not store the item received.
NextReceive_KeepsCurrent(resp) ==
    [current |-> current,
     err |-> IF resp.error = "EOF" THEN NoError ELSE resp.error,
     finished |-> resp.error # NoError,
     hasNext |-> resp.error = NoError]

\* The reader's fields after Next has received resp from respCh.
NextReceive(resp) ==
    [current |-> resp.chatResp,
     err |-> IF resp.error = "EOF" THEN NoError ELSE resp.error,
     finished |-> resp.error # NoError,
     hasNext |-> resp.error = NoError]

\* The caller's loop leaves with stream.Error().
LoopExit(why, e) ==
    /\ cpc' = "done"
    /\ stop' = why
    /\ returned' = e

\* A call of Next: by the Next loop of the guide, or by the caller after its
\* loop has ended.
CallsNext == (cpc = "next" /\ consumer # "read") \/ cpc = "done"

\* A call of Read: by the Read loop of the README, or by the caller after its
\* loop has ended.
CallsRead == (cpc = "next" /\ consumer = "read") \/ cpc = "done"

\* What a false Next, or a Read with an error, means to the caller: its loop
\* ends; after the loop nothing more.
OnLast(e) ==
    IF cpc = "next" THEN LoopExit("end", e) ELSE UNCHANGED <<cpc, stop, returned>>

\* History of a call of Next that returns ok.
NextReturns(ok) ==
    /\ lastNext' = IF ok THEN "true" ELSE "false"
    /\ nTrue' = IF ok THEN nTrue + 1 ELSE nTrue
    /\ againAfterFalse' = (againAfterFalse \/ lastNext = "false")

\* A variant that clears err on every call.
C_NextFinished_ClearsError ==
    /\ CallsNext
    /\ finished
    /\ err' = NoError
    /\ OnLast(NoError)
    /\ NextReturns(FALSE)
    /\ UNCHANGED <<accVars, seqVars, concVars, libVars, lineNo, procPc, item, chClosed,
                   streamClosed, current, hasNext, finished, consumer, dispatched, truth,
                   begun, waitedFor, longNo, lastLine, endedBy, taken, usedRead>>

\* Next on a finished reader: false at once.
C_NextFinished ==
    /\ CallsNext
    /\ finished
    /\ OnLast(err)
    /\ NextReturns(FALSE)
    /\ UNCHANGED <<accVars, seqVars, concVars, libVars, readerVars, consumer, dispatched, truth,
                   begun, waitedFor, longNo, lastLine, endedBy, taken, usedRead>>

\* Next receives what process is sending; process goes on, or returns after
\* an error item.
C_NextReceive ==
    LET r == NextReceive(item)
    IN  /\ CallsNext
        /\ ~finished
        /\ procPc \in {"send", "sendlast"}
        /\ current' = r.current
        /\ err' = r.err
        /\ finished' = r.finished
        /\ hasNext' = r.hasNext
        /\ procPc' = IF procPc = "send" THEN "read" ELSE "return"
        /\ IF r.hasNext
           THEN /\ cpc' = IF cpc = "next" THEN "handle" ELSE cpc
                /\ UNCHANGED <<stop, returned>>
           ELSE OnLast(r.err)
        /\ NextReturns(r.hasNext)
        /\ taken' = taken + 1
        /\ UNCHANGED <<accVars, seqVars, concVars, libVars, lineNo, item, chClosed, streamClosed,
                       consumer, dispatched, truth, begun, waitedFor, longNo, lastLine,
                       endedBy, usedRead>>

\* Next finds respCh closed.
C_NextClosed ==
    /\ CallsNext
    /\ ~finished
    /\ chClosed
    /\ finished' = TRUE
    /\ hasNext' = FALSE
    /\ OnLast(err)
    /\ NextReturns(FALSE)
    /\ UNCHANGED <<accVars, seqVars, concVars, libVars, lineNo, procPc, item, chClosed,
                   streamClosed, current, err, consumer, dispatched, truth, begun,
                   waitedFor, longNo, lastLine, endedBy, taken, usedRead>>

\* Read receives what process is sending and returns its two fields; the Read
\* loop ends on an error.
C_ReadReceive ==
    /\ CallsRead
    /\ procPc \in {"send", "sendlast"}
    /\ procPc' = IF procPc = "send" THEN "read" ELSE "return"
    /\ IF item.error # NoError THEN OnLast(item.error)
       ELSE UNCHANGED <<cpc, stop, returned>>
    /\ taken' = taken + 1
    /\ usedRead' = TRUE
    /\ UNCHANGED <<accVars, seqVars, concVars, libVars, lineNo, item, chClosed, streamClosed,
                   current, err, hasNext, finished, consumer, dispatched, truth, begun,
                   waitedFor, longNo, lastLine, endedBy, nTrue, lastNext,
                   againAfterFalse>>

\* Read finds respCh closed: the receive yields a nil *streamResponse and
\* reading its field panics.
C_ReadClosed ==
    /\ CallsRead
    /\ chClosed
    /\ cpc' = "panicked"
    /\ stop' = "panic"
    /\ usedRead' = TRUE
    /\ UNCHANGED <<accVars, seqVars, concVars, libVars, readerVars, consumer, returned, dispatched,
                   truth, begun, waitedFor, longNo, lastLine, endedBy, taken, nTrue,
                   lastNext, againAfterFalse>>

\* The accumulator after the loop body's ProcessDelta, when the chunk has
\* fragments; the loop that only iterates has no accumulator.
AfterProcess(chunk) ==
    IF chunk.ToolCalls # <<>> /\ consumer # "iterate"
    THEN ProcessDeltaLoop(Acc, chunk.ToolCalls) ELSE Acc

\* Whether the loop body leaves the loop at this chunk.
Breaks(kind, chunk, tc) ==
    /\ kind # "iterate"
    /\ chunk.FinishReason # ""
    /\ kind = "correct" => ~HasPendingToolCalls(tc)

\* The loop body for the chunk Current() returns: ProcessDelta, Handle of every
\* completed call, ClearCompleted, then the finish check.
C_Handle ==
    LET after == AfterProcess(current)
        done == IF current.ToolCalls # <<>> /\ consumer # "iterate"
                THEN {c.ID : c \in GetCompletedToolCalls(after.toolCalls)} ELSE {}
        left == IF current.ToolCalls # <<>> /\ consumer # "iterate"
                THEN ClearCompletedMap(after.toolCalls) ELSE after.toolCalls
    IN  /\ cpc = "handle"
        /\ toolCalls' = left
        /\ lastToolCallID' = after.lastToolCallID
        /\ dispatched' = [id \in IDs |-> dispatched[id] + IF id \in done THEN 1 ELSE 0]
        /\ begun' = IF consumer = "iterate" THEN begun
                    ELSE begun \cup Targets(lastToolCallID, current.ToolCalls)
        /\ IF Breaks(consumer, current, left)
           THEN LoopExit("finish", err)
           ELSE cpc' = "next" /\ UNCHANGED <<stop, returned>>
        /\ waitedFor' = IF current.FinishReason # "" /\ ~Breaks(consumer, current, left)
                        THEN waitedFor \cup {id \in DOMAIN left : ~left[id].IsComplete}
                        ELSE waitedFor
        /\ UNCHANGED <<seqVars, concVars, libVars, readerVars, consumer, truth, histVars>>

NextStream ==
    \/ \E line \in Lines : P_ReadLine(line)
    \/ P_SkipLine
    \/ \E e \in {"EOF", "read"} : P_ReadError(e)
    \/ P_Return
    \/ C_NextFinished
    \/ C_NextReceive
    \/ C_NextClosed
    \/ C_ReadReceive
    \/ C_ReadClosed
    \/ C_Handle

\* handleStreamCorrect, handleStreamWrong, the README's Read loop or the
\* iterator test's plain Next loop over a new reader and a new accumulator.
InitStream ==
    /\ InitAcc
    /\ InitThreads
    /\ InitReader
    /\ InitHist
    /\ InitLib
    /\ \E kind \in {"correct", "wrong", "read", "iterate"} : InitCaller(kind)

SpecStream == InitStream /\ [][NextStream]_vars

\* The steps of the process goroutine.
ProcessStep ==
    \/ \E line \in Lines : P_ReadLine(line)
    \/ P_SkipLine
    \/ \E e \in {"EOF", "read"} : P_ReadError(e)
    \/ P_Return

\* The steps of a caller that takes items with Next.
CursorStep == C_NextFinished \/ C_NextReceive \/ C_NextClosed \/ C_Handle

\* The iterator test's Next loop or the README's Read loop over a new reader.
InitDrain ==
    /\ InitAcc
    /\ InitThreads
    /\ InitReader
    /\ InitHist
    /\ InitLib
    /\ \E kind \in {"iterate", "read"} : InitCaller(kind)

\* The goroutine runs whenever it can; the caller may stop calling at any time.
SpecAbandon == InitDrain /\ [][NextStream]_vars /\ WF_vars(ProcessStep)

\* The goroutine runs whenever it can, and the caller keeps calling Next.
SpecDrain ==
    InitDrain /\ [][NextStream]_vars /\ WF_vars(ProcessStep) /\ WF_vars(CursorStep)

----------------------------------------------------------------------------
(* Properties of the accumulator under Spec *)

\* The buffered argument text of call id; empty when the map has no such call.
BufferOf(tc, id) == IF id \in DOMAIN tc THEN tc[id].ArgumentsBuffer ELSE <<>>

\* The fragments that carry id.
FragmentsOf(id) == {f \in Fragments : f.Id = id}

\* The fragments that omit the id.
IdLess == FragmentsOf(NoID)

\* Call k is the same in tc and in after: absent in both, or the same record.
SameCall(tc, after, k) ==
    /\ (k \in DOMAIN after) = (k \in DOMAIN tc)
    /\ k \in DOMAIN tc => after[k] = tc[k]

(* C2: fragments that carry the same non-empty id, processed in order in   *)
(* one ProcessDelta batch or in consecutive ProcessDelta calls, leave the  *)
(* call's buffer equal to what it was followed by the fragments' argument  *)
(* texts in arrival order.                                                 *)
C2_OrderPreservingConcatenation ==
    \A id \in IDs : \A f \in FragmentsOf(id) :
        /\ BufferOf(ProcessDeltaLoop(Acc, <<f>>).toolCalls, id)
               = BufferOf(toolCalls, id) \o f.Arguments
        /\ \A g \in FragmentsOf(id) :
              LET expected == (BufferOf(toolCalls, id) \o f.Arguments) \o g.Arguments
                  oneBatch == ProcessDeltaLoop(Acc, <<f, g>>)
                  twoCalls == ProcessDeltaLoop(ProcessDeltaLoop(Acc, <<f>>), <<g>>)
              IN  /\ BufferOf(oneBatch.toolCalls, id) = expected
                  /\ BufferOf(twoCalls.toolCalls, id) = expected

\* A call's buffer holds two fragments' texts, appended by ProcessDelta.
C2_Witness ==
    /\ ret.op = "ProcessDelta"
    /\ \E id \in DOMAIN toolCalls : toolCalls[id].ArgumentsBuffer = <<"[", "]">>

(* C3: the remembered id is the last non-empty id any fragment carried (so *)
(* only such a fragment changes it; ClearCompleted, FinalizeStream and     *)
(* ForceCompleteToolCall do not), and a fragment with an empty id is       *)
(* applied to the call keyed by it and to no other call.                   *)
C3_IdLessFragmentAssociation ==
    /\ lastToolCallID = seenID
    /\ seenID # NoID =>
          \A f \in IdLess :
            LET after == ProcessDeltaLoop(Acc, <<f>>)
            IN  /\ after.lastToolCallID = seenID
                /\ seenID \in DOMAIN after.toolCalls
                /\ BufferOf(after.toolCalls, seenID)
                       = BufferOf(toolCalls, seenID) \o f.Arguments
                /\ \A k \in IDs \ {seenID} : SameCall(toolCalls, after.toolCalls, k)
    /\ \A id \in IDs : \A g \in FragmentsOf(id) : \A f \in IdLess :
          LET after == ProcessDeltaLoop(Acc, <<g, f>>)
          IN  /\ after.lastToolCallID = id
              /\ BufferOf(after.toolCalls, id)
                     = (BufferOf(toolCalls, id) \o g.Arguments) \o f.Arguments
              /\ \A k \in IDs \ {id} : SameCall(toolCalls, after.toolCalls, k)

\* Two ids were seen, the calls were cleared, and the later id is remembered.
C3_Witness ==
    /\ ret.op = "ClearCompleted"
    /\ seenID = "b"
    /\ "a" \in DOMAIN toolCalls
    /\ "b" \notin DOMAIN toolCalls

\* Whether call id is in the map and marked complete.
IsCompleteIn(tc, id) == id \in DOMAIN tc /\ tc[id].IsComplete

\* Whether call id's buffer was valid JSON right after one of the batch's
\* fragments was applied.
ValidAfterSomeFragment(batch, id) ==
    \E n \in 1..Len(batch) :
        LET mid == ProcessDeltaLoop(Acc, SubSeq(batch, 1, n)).toolCalls
        IN  id \in DOMAIN mid /\ IsValidJSON(mid[id].ArgumentsBuffer)

C7_FinalizeStream ==
    [][ret'.op = "FinalizeStream" =>
          /\ DOMAIN toolCalls' = DOMAIN toolCalls
          /\ \A id \in DOMAIN toolCalls :
                /\ toolCalls'[id].IsComplete
                      = (toolCalls[id].IsComplete
                            \/ IsValidJSON(toolCalls[id].ArgumentsBuffer))
                /\ ToToolCall(toolCalls'[id]) = ToToolCall(toolCalls[id])
          /\ ret'.val = {[ID |-> id, Type |-> toolCalls[id].Type,
                          Name |-> toolCalls[id].FunctionName,
                          Parameters |-> toolCalls[id].ArgumentsBuffer] :
                            id \in {k \in DOMAIN toolCalls' : toolCalls'[k].IsComplete}}
      ]_vars

\* FinalizeStream returned one complete call and left another one pending.
C7_Witness ==
    /\ ret.op = "FinalizeStream"
    /\ Cardinality(ret.val) = 1
    /\ \E id \in DOMAIN toolCalls :
          ~toolCalls[id].IsComplete /\ toolCalls[id].ArgumentsBuffer = <<>>

(* C8: ClearCompleted removes exactly the complete entries: afterwards the *)
(* total count is the pending count from before, the completed count is 0, *)
(* and every pending entry is unchanged.                                   *)
C8_ClearThenRecount ==
    [][ret'.op = "ClearCompleted" =>
          /\ GetTotalCount(toolCalls') = GetPendingCount(toolCalls)
          /\ GetCompletedCount(toolCalls') = 0
          /\ \A id \in DOMAIN toolCalls :
                ~toolCalls[id].IsComplete =>
                    id \in DOMAIN toolCalls' /\ toolCalls'[id] = toolCalls[id]
      ]_vars

\* ClearCompleted has removed a call and kept a pending one.
C8_Witness ==
    /\ ret.op = "ClearCompleted"
    /\ GetTotalCount(toolCalls) = 1
    /\ GetPendingCount(toolCalls) = 1
    /\ seenID # NoID /\ seenID \notin DOMAIN toolCalls

(* C9: a fragment that carries a complete call's id and no argument text   *)
(* leaves the call complete and its argument text unchanged; no operation  *)
(* makes a complete call pending, and only ClearCompleted removes one.     *)
C9_IdempotentCompleteness ==
    [][/\ \A id \in DOMAIN toolCalls :
            toolCalls[id].IsComplete =>
               \A f \in FragmentsOf(id) :
                   f.Arguments = <<>> =>
                       LET after == ProcessDeltaLoop(Acc, <<f>>).toolCalls
                       IN  /\ IsCompleteIn(after, id)
                           /\ after[id].ArgumentsBuffer = toolCalls[id].ArgumentsBuffer
       /\ \A id \in DOMAIN toolCalls :
            toolCalls[id].IsComplete =>
               IF id \in DOMAIN toolCalls'
               THEN toolCalls'[id].IsComplete
               ELSE ret'.op = "ClearCompleted"
      ]_vars

\* A complete call took a further fragment and is still complete.
C9_Witness ==
    /\ ret.op = "ProcessDelta"
    /\ \E id \in DOMAIN toolCalls :
          /\ toolCalls[id].IsComplete
          /\ toolCalls[id].ArgumentsBuffer = <<"1", "[">>

----------------------------------------------------------------------------
(* Properties of the shared accumulator *)

\* The threads inside a mutating operation, between its Lock and its Unlock.
InWrite == {t \in Threads : pc[t] \in {"load", "store", "unlock"} \cup MaintenanceOps}

\* The threads inside a query, between its RLock and its RUnlock.
InQuery == {t \in Threads : pc[t] \in {"query", "runlock"}}

\* Every writer has handed over all its fragments and returned.
AllWritersDone == \A t \in Writers : pc[t] = "idle" /\ sent[t] = MFrags

(* C5: writers that concurrently feed the fragments of their own calls,    *)
(* one fragment per ProcessDelta call, lose and mix nothing: between its   *)
(* calls a writer's call holds exactly the text of the fragments it has    *)
(* handed over, and when all are done the accumulator holds exactly the    *)
(* writers' calls, each complete with its whole text.                      *)
C5_ConcurrentWriters ==
    /\ \A t \in Writers :
          pc[t] = "idle" => BufferOf(toolCalls, CallID(t)) = TextUpTo(sent[t])
    /\ AllWritersDone =>
          /\ DOMAIN toolCalls = {CallID(t) : t \in Writers}
          /\ GetTotalCount(toolCalls) = NWriters
          /\ GetCompletedCount(toolCalls) = NWriters
          /\ \A t \in Writers :
                ToToolCall(toolCalls[CallID(t)])
                   = [ID |-> CallID(t), Type |-> "function", Name |-> "get_weather",
                      Parameters |-> TextUpTo(MFrags)]

\* All writers are done, and queries ran while they wrote.
C5_Witness == AllWritersDone /\ overlapSeen

(* C6: at most one thread is inside a mutating operation, no thread is     *)
(* inside a query while one is, and no query reads the map between the     *)
(* Lock and the Unlock of a mutating operation (so never a batch that is   *)
(* partly applied).                                                        *)
C6_MutualExclusion ==
    /\ Cardinality(InWrite) <= 1
    /\ InWrite # {} => InQuery = {}
    /\ ~tornRead

\* A ProcessDelta batch of two fragments is half applied, no query is running,
\* and two queries have overlapped before.
C6_Witness ==
    /\ overlapSeen
    /\ InQuery = {}
    /\ \E t \in Writers :
          /\ pc[t] = "load"
          /\ Len(todo[t]) = 1
          /\ toolCalls # committed

----------------------------------------------------------------------------
(* Properties of the caller's loops *)

\* The calls whose delivered argument text is a whole JSON value.
WholeCalls == {id \in IDs : IsValidJSON(truth.args[id])}

C10_SilentLoss ==
    (consumer = "wrong" /\ stop = "finish") =>
        /\ returned = NoError
        /\ \A id \in begun :
              dispatched[id] = 0 => id \in DOMAIN toolCalls /\ ~toolCalls[id].IsComplete

\* The loop stopped at a finish signal with a call pending; the stream then
\* delivered the call's closing fragment; no error anywhere.
C10_Witness ==
    /\ consumer = "wrong"
    /\ stop = "finish"
    /\ returned = NoError
    /\ err = NoError
    /\ \E id \in begun :
          /\ dispatched[id] = 0
          /\ truth.args[id] = <<"[", "]">>
          /\ BufferOf(toolCalls, id) = <<"[">>

----------------------------------------------------------------------------
(* Properties of the stream reader *)

(* C11, as claimed: whatever the caller does, and so also when it stops    *)
(* calling Next and Read before the terminal item was delivered, process   *)
(* returns and closes the transport stream.                                *)
C11_AbandonedStreamIsClosed == <>(procPc = "exited" /\ streamClosed > 0)

(* C17: when the caller keeps calling Next until it returns false, process *)
(* returns and the transport stream is closed, once and never twice,       *)
(* however the stream ends.                                                *)
C17_DrainedStreamIsClosedOnce ==
    consumer = "iterate" =>
        /\ [](streamClosed <= 1)
        /\ <>[](procPc = "exited" /\ streamClosed = 1 /\ lastNext = "false")

\* Next has returned false after a line that does not decode; process has
\* returned and closed the stream once.
C17_Witness ==
    /\ consumer = "iterate"
    /\ ~usedRead
    /\ lastNext = "false"
    /\ endedBy = "bad"
    /\ nTrue > 0
    /\ procPc = "exited"
    /\ streamClosed = 1

(* C12: once Next has returned false, every later call of Next returns     *)
(* false, and what Error() and Current() return no longer changes.         *)
C12_TerminalStateIsMonotonic ==
    [][lastNext = "false" =>
          /\ lastNext' = "false"
          /\ err' = err
          /\ current' = current
          /\ nTrue' = nTrue
      ]_vars

\* Next was called again after it had returned false with an error.
C12_Witness ==
    /\ againAfterFalse
    /\ lastNext = "false"
    /\ err = "decode"
    /\ nTrue > 0

\* What made the stream end was clean: the [DONE] line or the transport's EOF.
EndedCleanly == endedBy \in {"done", "eof"}

\* The error that ended the stream: ReadLine's, json.Unmarshal's or the
\* keep-alive error.
TerminalError ==
    CASE endedBy = "read" -> "read"
      [] endedBy = "bad" -> "decode"
      [] endedBy = "keepalive" -> "unavailable"
      [] OTHER -> NoError

(* C13: on a reader whose items are taken by Next alone, after Next has    *)
(* returned false the stream has ended, Error() is nil exactly when it     *)
(* ended with the [DONE] line or the transport's EOF, and is the terminal  *)
(* error when it ended with a read failure, a line that does not decode or *)
(* the keep-alive line.                                                    *)
C13_ErrorAfterFalse ==
    (lastNext = "false" /\ ~usedRead) =>
        /\ endedBy # ""
        /\ (err = NoError) = EndedCleanly
        /\ ~EndedCleanly => err = TerminalError /\ err # NoError

\* Next has returned false at the [DONE] line after it had delivered an item.
C13_Witness ==
    /\ lastNext = "false"
    /\ ~usedRead
    /\ endedBy = "done"
    /\ err = NoError
    /\ nTrue > 0

(* C14: Current() returns nil before any call of Next; on a reader whose   *)
(* items are taken by Next alone it returns nil after Next has returned    *)
(* false; after Next has returned true it returns the item that call       *)
(* received, which is not nil.                                             *)
C14_Current ==
    [][/\ lastNext' = "none" => current' = NilResp
       /\ (lastNext' = "false" /\ ~usedRead') => current' = NilResp
       /\ lastNext' = "true" => ~current'.isNil
       /\ nTrue' = nTrue + 1 => current' = item.chatResp /\ lastNext' = "true"
      ]_vars

\* Next delivered an item and then returned false: Current() is nil again.
C14_Witness ==
    /\ lastNext = "false"
    /\ ~usedRead
    /\ nTrue > 0
    /\ current = NilResp
    /\ endedBy = "bad"

(* C15: on a reader whose items are taken by Next alone, the k-th call of  *)
(* Next that returns true delivers the record decoded from the k-th line   *)
(* longer than one byte; a line of at most one byte is not handed to       *)
(* processResponse and changes nothing that is delivered.                  *)
C15_InOrderDelivery ==
    [][/\ (nTrue' = nTrue + 1 /\ ~usedRead) =>
             /\ nTrue' = longNo
             /\ lastLine.kind = "data"
             /\ processResponse(lastLine).error = NoError
             /\ current' = processResponse(lastLine).chatResp
       /\ (lineNo' = lineNo + 1 /\ longNo' = longNo) =>
             /\ lastLine' = lastLine
             /\ item' = item
             /\ procPc' = procPc
       /\ lineNo' = lineNo + 1 => procPc = "read" /\ longNo' <= longNo + 1
      ]_vars

\* Three lines with a short one in between: the second item delivered is the
\* record of the third line.
C15_Witness ==
    /\ ~usedRead
    /\ lineNo = 3
    /\ longNo = 2
    /\ nTrue = 2
    /\ lastNext = "true"
    /\ lastLine.kind = "data"
    /\ current = lastLine.chunk
    /\ current.ToolCalls # <<>>

(* C16, as claimed: while an item it has decoded waits for the caller,     *)
(* process can go on reading the transport.                                *)
C16_Original_ReadsAhead == procPc = "send" => ENABLED ProcessStep

(* C16, amended: process runs beside the caller but hands each item over   *)
(* an unbuffered channel: it has read at most one line longer than one     *)
(* byte more than the caller has taken, and while that item waits no step  *)
(* of process is possible.                                                 *)
C16_OneItemAhead ==
    /\ longNo <= taken + 1
    /\ procPc \in {"send", "sendlast"} => ~ENABLED ProcessStep
    /\ procPc = "send" => longNo = taken + 1

\* The caller has taken one item and is not calling; process holds the next
\* one and has not read the line after it.
C16_Witness ==
    /\ taken = 1
    /\ nTrue = 1
    /\ cpc = "handle"
    /\ procPc = "send"
    /\ longNo = 2
    /\ lineNo < MaxLines

(* C18: once process has read the keep-alive line it reads no further line *)
(* and no further item is delivered; on a reader whose items are taken by  *)
(* Next alone, the call of Next that receives it returns false and Error() *)
(* is the service-unavailable error from then on.                          *)
C18_KeepAliveIsAnError ==
    [][/\ endedBy = "keepalive" =>
             /\ lineNo' = lineNo
             /\ nTrue' = nTrue
             /\ endedBy' = "keepalive"
       /\ (endedBy' = "keepalive" /\ ~usedRead' /\ procPc' # "sendlast") =>
             /\ lastNext' = "false"
             /\ err' = "unavailable"
             /\ finished'
       /\ (endedBy' = "keepalive" /\ procPc' = "sendlast") =>
             item' = [chatResp |-> NilResp, error |-> "unavailable"]
      ]_vars

\* The second line was the keep-alive line: Next returned true, then false
\* with the error, and was called again.
C18_Witness ==
    /\ endedBy = "keepalive"
    /\ ~usedRead
    /\ lineNo = 2
    /\ nTrue = 1
    /\ lastNext = "false"
    /\ againAfterFalse
    /\ err = "unavailable"

----------------------------------------------------------------------------
(* Properties of ParseToolCallArgumentsSafe *)

\* The text is a number.
IsNumber(s) == s # <<>> /\ \A i \in 1..Len(s) : s[i] = "1"

\* Valid JSON text s matches the target type T: a number for int, an array
\* of numbers for []int.
Fits(s, T) ==
    IF T = "int" THEN IsNumber(s)
    ELSE s[1] = "[" /\ (Inner(s) = <<>> \/ IsNumber(Inner(s)))

\* The outermost value of valid JSON text s is of the kind T takes.
FitsOutermost(s, T) == IF T = "int" THEN s[1] = "1" ELSE s[1] = "["

(* C19 as stated: for a payload with a text there are three outcomes:      *)
(* empty or invalid text gives (zero value, false, nil); valid text that   *)
(* fits the target gives (the value, true, nil); valid text that does not  *)
(* fit gives (zero value, false, an error).                                *)
C19_Original_ThreeOutcomes ==
    (parseOut # NotParsed /\ parseIn.params.kind # "unmarshalable") =>
        LET text == parseIn.params.text
            T == parseIn.T
        IN  /\ ~IsValidJSON(text) =>
                parseOut = [value |-> ZeroValue(T), complete |-> FALSE, error |-> ""]
            /\ (IsValidJSON(text) /\ Fits(text, T)) =>
                /\ parseOut.complete
                /\ parseOut.error = ""
                /\ parseOut.value = Unmarshal(text, T).value
            /\ (IsValidJSON(text) /\ ~Fits(text, T)) =>
                /\ ~parseOut.complete
                /\ parseOut.error # ""
                /\ parseOut.value = ZeroValue(T)

(* C19: empty or invalid text gives (zero value, false, nil); valid text   *)
(* that fits the target gives (the value, true, nil); valid text that does *)
(* not fit gives (v, false, an error), where v is the zero value when the  *)
(* outermost value does not fit and a partly filled value when a nested    *)
(* one does not; a payload json.Marshal rejects gives (zero value, false,  *)
(* an error).  Valid text is never reported as incomplete without an error *)
(* and invalid text never gives an error.                                  *)
C19_OutcomesOfParseSafe ==
    parseOut # NotParsed =>
        LET text == parseIn.params.text
            T == parseIn.T
        IN  IF parseIn.params.kind = "unmarshalable"
            THEN parseOut = [value |-> ZeroValue(T), complete |-> FALSE, error |-> "marshal"]
            ELSE /\ ~IsValidJSON(text) =>
                     parseOut = [value |-> ZeroValue(T), complete |-> FALSE, error |-> ""]
                 /\ (IsValidJSON(text) /\ Fits(text, T)) =>
                     /\ parseOut.complete
                     /\ parseOut.error = ""
                     /\ parseOut.value = Unmarshal(text, T).value
                     /\ parseOut.value # ZeroValue(T)
                 /\ (IsValidJSON(text) /\ ~Fits(text, T)) =>
                     /\ ~parseOut.complete
                     /\ parseOut.error = "parse"
                     /\ parseOut.value = IF FitsOutermost(text, T) THEN SliceValue(<<0>>)
                                        ELSE ZeroValue(T)
                 /\ IsValidJSON(text) => (parseOut.complete \/ parseOut.error # "")

\* An array of an array was parsed into []int: an error, and a slice with
\* one zero element.
C19_Witness ==
    /\ parseIn.T = "[]int"
    /\ parseIn.params = [kind |-> "string", text |-> <<"[", "[", "]", "]">>]
    /\ parseOut = [value |-> SliceValue(<<0>>), complete |-> FALSE, error |-> "parse"]

----------------------------------------------------------------------------
(* Properties of the function registry *)

(* C20: Handle leaves the registry as it was and returns a result with the *)
(* call's id.  For a function that is not registered no handler is invoked *)
(* and the result has an empty content and an error naming the function;   *)
(* for a registered function the result has the handler's content and, in  *)
(* its error field, the handler's error.                                   *)
C20_HandleNeverFailsTheBatch ==
    [][handled'.op = "Handle" =>
          LET c == handled'.call
              res == handled'.result
          IN  /\ handlers' = handlers
              /\ res.ToolCallID = c.ID
              /\ IF c.Name \notin DOMAIN handlers
                 THEN /\ handled'.invoked = ""
                      /\ res.Content = <<>>
                      /\ res.Error # <<>>
                      /\ \E i \in 1..Len(res.Error) : res.Error[i] = c.Name
                 ELSE /\ handled'.invoked = c.Name
                      /\ res.Content = HandleToolCall(handlers[c.Name], c).content
                      /\ res.Error = HandleToolCall(handlers[c.Name], c).err
      ]_vars

\* Both functions are registered and a call of a third one was handled.
C20_Witness ==
    /\ DOMAIN handlers = {"get_weather", "get_time"}
    /\ handled.op = "Handle"
    /\ handled.call.Name = "unknown_fn"
    /\ handled.invoked = ""
    /\ handled.result = [ToolCallID |-> handled.call.ID, Content |-> <<>>,
                         Error |-> <<"function", "unknown_fn", "not found">>]

----------------------------------------------------------------------------
(* Further properties of the accumulator under Spec *)

(* C21: ForceCompleteToolCall(id) for an id in the map marks that call     *)
(* complete whatever its buffer holds and returns its id, type, function   *)
(* name and buffer text; every other call, every buffer and the remembered *)
(* id stay as they were.  For an id not in the map it returns nil and      *)
(* changes nothing.                                                        *)
C21_ForceComplete ==
    [][\A id \in IDs :
          ForceCompleteToolCall(id) =>
              IF id \in DOMAIN toolCalls
              THEN /\ DOMAIN toolCalls' = DOMAIN toolCalls
                   /\ toolCalls'[id] = [toolCalls[id] EXCEPT !.IsComplete = TRUE]
                   /\ \A k \in DOMAIN toolCalls \ {id} : toolCalls'[k] = toolCalls[k]
                   /\ ret'.val = {[ID |-> id, Type |-> toolCalls[id].Type,
                                   Name |-> toolCalls[id].FunctionName,
                                   Parameters |-> toolCalls[id].ArgumentsBuffer]}
                   /\ lastToolCallID' = lastToolCallID
              ELSE /\ toolCalls' = toolCalls
                   /\ lastToolCallID' = lastToolCallID
                   /\ ret'.val = NoCalls
      ]_vars

\* A call whose buffer is not valid JSON was forced complete and returned,
\* and another call is still pending.
C21_Witness ==
    /\ ret.op = "ForceCompleteToolCall"
    /\ \E c \in ret.val :
          /\ ~IsValidJSON(c.Parameters)
          /\ c.ID \in DOMAIN toolCalls
          /\ toolCalls[c.ID].IsComplete
          /\ toolCalls[c.ID].ArgumentsBuffer = c.Parameters
          /\ \E k \in DOMAIN toolCalls \ {c.ID} : ~toolCalls[k].IsComplete

\* The ids of the calls GetCompletedToolCalls returns.
CompletedIDs(tc) == {c.ID : c \in GetCompletedToolCalls(tc)}

(* C22: in every state the pending count and the completed count add up to *)
(* the total count, HasPendingToolCalls is true exactly when the pending   *)
(* count is positive, every id in the map is in exactly one of             *)
(* GetPendingToolCalls and GetCompletedToolCalls, both hold only ids of    *)
(* the map, and a new accumulator has all three counts 0.                  *)
C22_CountsAgree ==
    /\ GetPendingCount(toolCalls) + GetCompletedCount(toolCalls) = GetTotalCount(toolCalls)
    /\ HasPendingToolCalls(toolCalls) = (GetPendingCount(toolCalls) > 0)
    /\ \A id \in DOMAIN toolCalls :
          (id \in DOMAIN GetPendingToolCalls(toolCalls)) # (id \in CompletedIDs(toolCalls))
    /\ DOMAIN GetPendingToolCalls(toolCalls) \cup CompletedIDs(toolCalls) = DOMAIN toolCalls
    /\ GetPendingCount(toolCalls) = Cardinality(DOMAIN GetPendingToolCalls(toolCalls))
    /\ GetCompletedCount(toolCalls) = Cardinality(GetCompletedToolCalls(toolCalls))
    /\ ret.op = "New" =>
          /\ GetPendingCount(toolCalls) = 0
          /\ GetCompletedCount(toolCalls) = 0
          /\ GetTotalCount(toolCalls) = 0

\* One call is pending and one is complete: the counts are 1, 1 and 2.
C22_Witness ==
    /\ GetPendingCount(toolCalls) = 1
    /\ GetCompletedCount(toolCalls) = 1
    /\ GetTotalCount(toolCalls) = 2
    /\ HasPendingToolCalls(toolCalls)

(* C23: while no fragment with a non-empty id has been seen, a fragment    *)
(* with an empty id is skipped: it creates no call and changes nothing,    *)
(* and the fragments after it in the same ProcessDelta batch are processed *)
(* as if it had not been there.                                            *)
C23_IdLessFragmentSkipped ==
    seenID = NoID =>
        /\ toolCalls = NewStreamingToolCallAccumulator.toolCalls
        /\ lastToolCallID = NoID
        /\ \A f \in IdLess :
              /\ ProcessDeltaLoop(Acc, <<f>>) = Acc
              /\ \A g \in Fragments :
                    /\ ProcessDeltaLoop(Acc, <<f, g>>) = ProcessDeltaLoop(Acc, <<g>>)
                    /\ g.Id # NoID => g.Id \in DOMAIN ProcessDeltaLoop(Acc, <<f, g>>).toolCalls

\* ProcessDelta was called with fragments without an id before any id was
\* seen, and the accumulator is as new.
C23_Witness ==
    /\ ret.op = "ProcessDelta"
    /\ seenID = NoID
    /\ GetTotalCount(toolCalls) = 0
    /\ lastToolCallID = NoID

----------------------------------------------------------------------------
(* Properties of the chunk decoder's prefix handling *)

\* The line starts with the six bytes "data: ".
HasDataPrefix(content) ==
    Len(content) >= Len(DataPrefix) /\ SubSeq(content, 1, Len(DataPrefix)) = DataPrefix

(* C24: the bytes processResponse interprets are the line without its      *)
(* first six bytes when the line starts with "data: ", and the line itself *)
(* when it does not.                                                       *)
C24_PrefixRemovedOnlyWhenPresent ==
    trimOut.called =>
        trimOut.content = IF HasDataPrefix(trimIn)
                          THEN SubSeq(trimIn, Len(DataPrefix) + 1, Len(trimIn))
                          ELSE trimIn

----------------------------------------------------------------------------
(* Properties of the accumulator without ForceCompleteToolCall *)

(* C25: every call GetCompletedToolCalls returns, and every call the last  *)
(* FinalizeStream returned, carries argument text that is valid JSON.      *)
C25_CompletedCallsAreValidJSON ==
    /\ \A c \in GetCompletedToolCalls(toolCalls) : IsValidJSON(c.Parameters)
    /\ ret.op = "FinalizeStream" => \A c \in ret.val : IsValidJSON(c.Parameters)

----------------------------------------------------------------------------
(* Properties of fragments without an id after ClearCompleted *)

\* The ProcessDelta batches whose fragments all have an empty id.
IdLessBatches == {b \in Batches : \A i \in 1..Len(b) : b[i].Id = NoID}

(* C26: a ProcessDelta call whose fragments all have an empty id does not  *)
(* increase the total count.                                               *)
C26_IdLessFragmentsCreateNoCall ==
    [][\A batch \in IdLessBatches :
          ProcessDelta(batch) => GetTotalCount(toolCalls') <= GetTotalCount(toolCalls)
      ]_vars

----------------------------------------------------------------------------
(* Properties of the guide's drain loop *)

(* C27: in handleStreamCorrect's loop each call id is handed to the        *)
(* dispatcher at most once per stream.                                     *)
C27_DispatchedAtMostOnce ==
    consumer = "correct" => \A id \in IDs : dispatched[id] <= 1

----------------------------------------------------------------------------
(* Properties of a drain concurrent with ProcessDelta *)

(* C28: every call the draining thread's ClearCompleted removes was in the *)
(* result of its preceding GetCompletedToolCalls.                          *)
C28_ClearedCallsWereReturned ==
    [][(pc[Maintainer] = "ClearCompleted" /\ pc'[Maintainer] = "unlock") =>
          \A id \in DOMAIN toolCalls \ DOMAIN toolCalls' :
              id \in DOMAIN snap[Maintainer].toolCalls
      ]_vars

----------------------------------------------------------------------------
(* Properties of pending calls under Spec *)

(* C29: in every state the buffer of every pending call is not valid JSON; *)
(* so FinalizeStream changes the status of no call and returns the calls   *)
(* GetCompletedToolCalls returns in that state.                            *)
C29_PendingIsNotValidJSON ==
    [][/\ \A id \in DOMAIN toolCalls' :
             ~toolCalls'[id].IsComplete => ~IsValidJSON(toolCalls'[id].ArgumentsBuffer)
       /\ FinalizeMark(toolCalls') = toolCalls'
       /\ ret'.op = "FinalizeStream" =>
             /\ toolCalls' = toolCalls
             /\ ret'.val = GetCompletedToolCalls(toolCalls)
      ]_vars

\* FinalizeStream returned a complete call and left a call with a begun
\* buffer pending.
C29_Witness ==
    /\ ret.op = "FinalizeStream"
    /\ ret.val # NoCalls
    /\ ret.val = GetCompletedToolCalls(toolCalls)
    /\ \E id \in DOMAIN toolCalls :
          ~toolCalls[id].IsComplete /\ toolCalls[id].ArgumentsBuffer # <<>>

----------------------------------------------------------------------------
(* Properties of Read *)

(* C30: no call of Read crashes: a Read issued after the terminal error    *)
(* has been delivered, by Read or by Next, returns a nil response and an   *)
(* error.                                                                  *)
C30_ReadAfterEndReturns == cpc # "panicked"

=============================================================================
